---------------------------- MODULE Spec2Model ----------------------------
(***************************************************************************)
(* A model of the puid crate (aitorfernandez/puid): the builder API of     *)
(* src/src/puid.rs, its process-wide counter, its encodings, and the       *)
(* deprecated one-call form puid() of src/src/puid.rs and src/src/lib.rs.  *)
(*                                                                         *)
(* Strings are sequences of Unicode scalar values (code points), so that   *)
(* str::len (a byte count) and str::chars (a scalar count) differ where    *)
(* they differ in Rust.                                                    *)
(***************************************************************************)
EXTENDS Integers, Sequences, FiniteSets, TLC

VARIABLES
    COUNTER,      \* static COUNTER: AtomicU8 of puid.rs
    lib_COUNTER,  \* static COUNTER: AtomicU8 of lib.rs
    \* threads calling counter(): the compare-and-swap loop of fetch_update
    pc, prev, nCalls, nUpdates, lastRet, lastBy, soloist,
    \* tests::counter_test
    tpc, a, b, c, spawned, childLeft, childAtC,
    \* the builder API, one caller
    builder, self, apc, parts, result, lastOp, spent, chainOk, chainPrefix,
    entropySet, nBuilds, nOther, pre, usedTime, pid,
    \* one call of prefix() / puid() on one input string
    input, prefixOut, puidOut, libOut,
    \* one call of to_base36
    v, out

counterVars == <<pc, prev, nCalls, nUpdates, lastRet, lastBy, soloist>>
testVars    == <<tpc, a, b, c, spawned, childLeft, childAtC>>
apiVars     == <<builder, self, apc, parts, result, lastOp, spent, chainOk,
                 chainPrefix, entropySet, nBuilds, nOther, pre, usedTime, pid>>
prefixVars  == <<input, prefixOut, puidOut, libOut>>
base36Vars  == <<v, out>>
vars == <<COUNTER, lib_COUNTER, counterVars, testVars, apiVars, prefixVars,
          base36Vars>>

---------------------------------------------------------------------------
\* Program constants.

U8_MAX == 255
BASE_36 == 36
DEFAULT_ENTROPY == 12
PREFIX_MAX_LEN == 8
PREFIX_MIN_LEN == 1
LIB_PREFIX_MAX_LEN == 4

\* Bounds of the model.
MaxCalls == 258          \* counter() calls started in SpecCounter
MaxOther == 2            \* counter() uses by other threads in Spec
MaxLen == 10             \* longest generated input string in SpecPrefix
MaxValue == 1400         \* to_base36 is applied to every value 0..MaxValue

None == "None"
Threads == {"t1", "t2"}

---------------------------------------------------------------------------
\* Characters and strings.

Underscore == <<95>>
is_ascii_digit(ch) == ch \in 48..57
is_ascii_alphabetic(ch) == ch \in 65..90 \/ ch \in 97..122

\* char::is_ascii_alphanumeric
is_unicode_alphanumeric(ch) == is_ascii_digit(ch) \/ is_ascii_alphabetic(ch) \/ ch >= 128
is_ascii_alphanumeric(ch) == is_ascii_digit(ch) \/ is_ascii_alphabetic(ch)

\* char::len_utf8
len_utf8(ch) == IF ch < 128 THEN 1 ELSE IF ch < 2048 THEN 2 ELSE IF ch < 65536 THEN 3 ELSE 4

RECURSIVE str_len(_)
\* str::len: the length in bytes
str_len(s) == IF s = <<>> THEN 0 ELSE len_utf8(Head(s)) + str_len(Tail(s))

\* str::chars().count()
chars_count(s) == Len(s)

\* str::is_empty
is_empty(s) == str_len(s) = 0

Reverse(s) == [i \in 1..Len(s) |-> s[Len(s) + 1 - i]]

\* char::from_digit(d, 36): '0'..'9' then 'a'..'z'
from_digit(d) == IF d < 10 THEN 48 + d ELSE 87 + d

RECURSIVE pushed_digits(_)
\* the while loop of to_base36: least significant digit pushed first
pushed_digits(n) ==
    IF n > 0 THEN <<from_digit(n % BASE_36)>> \o pushed_digits(n \div BASE_36)
    ELSE <<>>

to_base36_unreversed(n) == pushed_digits(n)
\* fn to_base36: result.chars().rev().collect()
to_base36(n) == Reverse(pushed_digits(n))

\* u8::to_string (decimal, no padding)
u8_to_string(n) ==
    IF n >= 100
    THEN <<48 + (n \div 100), 48 + ((n \div 10) % 10), 48 + (n % 10)>>
    ELSE IF n >= 10 THEN <<48 + (n \div 10), 48 + (n % 10)>>
    ELSE <<48 + n>>

\* rand::distributions::Alphanumeric: A-Z, a-z, 0-9
ALPHANUMERIC ==
    [i \in 1..62 |-> IF i <= 26 THEN 64 + i ELSE IF i <= 52 THEN 70 + i ELSE i - 5]

\* What thread_rng() yields is abstracted to a draw d: the i-th sample of the
\* call is a function of d and i.
Draws == {0, 45}

rnd_string_one_more(elements, d) == [i \in 1..(elements + 1) |-> ALPHANUMERIC[((d + 17 * i) % 62) + 1]]
\* fn rnd_string: sample_iter(&Alphanumeric).take(elements)
rnd_string(elements, d) == [i \in 1..elements |-> ALPHANUMERIC[((d + 17 * i) % 62) + 1]]

\* fn time: ambient input, milliseconds since the epoch
Times == {0, 1651312057}
\* std::process::id: ambient input
Pids == {1, 46655}

---------------------------------------------------------------------------
\* The counter.

counter_next_saturating(i) == IF i = U8_MAX THEN U8_MAX ELSE i + 1
\* the closure given to fetch_update
counter_next(i) == IF i = U8_MAX THEN 0 ELSE i + 1

counter_result_new(previous, new) == new
\* fetch_update(..).unwrap(): Ok(previous value)
counter_result(previous, new) == previous

compare_exchange_blind(current, expected) == TRUE
\* the comparison of compare_exchange_weak inside fetch_update
compare_exchange(current, expected) == current = expected

---------------------------------------------------------------------------
\* Validation.

validate_length_only(prefix) == str_len(prefix) \in PREFIX_MIN_LEN..PREFIX_MAX_LEN
validate_unicode(prefix) ==
    /\ str_len(prefix) \in PREFIX_MIN_LEN..PREFIX_MAX_LEN
    /\ \A i \in 1..Len(prefix) : is_unicode_alphanumeric(prefix[i])
\* fn validate of puid.rs
validate(prefix) ==
    /\ str_len(prefix) \in PREFIX_MIN_LEN..PREFIX_MAX_LEN
    /\ \A i \in 1..Len(prefix) : is_ascii_alphanumeric(prefix[i])

\* fn validate of lib.rs
lib_validate(pref) ==
    IF chars_count(pref) \in 1..LIB_PREFIX_MAX_LEN
    THEN \A i \in 1..Len(pref) : is_ascii_alphanumeric(pref[i])
    ELSE FALSE

---------------------------------------------------------------------------
\* The builder.

NoBuilder == [held |-> FALSE, entropy |-> 0, prefix |-> <<>>]
NoResult == [tag |-> "None", value |-> <<>>]
Err == [tag |-> "Err", value |-> <<>>]
Panic == [tag |-> "Panic", value |-> <<>>]
Ok(s) == [tag |-> "Ok", value |-> s]

\* #[derive(Default)] struct PuidBuilder
PuidBuilder_default == [held |-> TRUE, entropy |-> 0, prefix |-> <<>>]

\* PuidBuilder::new
PuidBuilder_new == [PuidBuilder_default EXCEPT !.entropy = DEFAULT_ENTROPY]

\* Puid::builder
Puid_builder == PuidBuilder_new

\* PuidBuilder::prefix: Ok(self with the prefix) or Err(InvalidPrefix); self is
\* moved into the call, so after an Err the caller holds no builder.
prefix(bld, p) ==
    IF validate(p)
    THEN [tag |-> "Ok", builder |-> [bld EXCEPT !.prefix = p]]
    ELSE [tag |-> "Err", builder |-> NoBuilder]

\* PuidBuilder::entropy
entropy(bld, e) == [bld EXCEPT !.entropy = e]

\* the body of the deprecated puid() after its assertion (puid.rs): the parts
\* in the order of the array that is concatenated
puid(pref, elements, t, cnt, p, d) ==
    pref \o Underscore \o to_base36(t) \o u8_to_string(cnt) \o to_base36(p)
         \o rnd_string(elements, d)

\* the same body in lib.rs, whose helpers are copies of those of puid.rs
lib_puid(pref, elements, t, cnt, p, d) ==
    pref \o Underscore \o to_base36(t) \o u8_to_string(cnt) \o to_base36(p)
         \o rnd_string(elements, d)

---------------------------------------------------------------------------
\* The rest state of each group of variables.

IdleCounter ==
    /\ pc = [t \in Threads |-> "idle"]
    /\ prev = [t \in Threads |-> 0]
    /\ nCalls = 0 /\ nUpdates = 0 /\ lastRet = 0 /\ lastBy = None
    /\ soloist = None
IdleTest ==
    /\ tpc = "off" /\ a = 0 /\ b = 0 /\ c = 0
    /\ spawned = FALSE /\ childLeft = 0 /\ childAtC = 0
IdleApi ==
    /\ builder = NoBuilder /\ self = NoBuilder /\ apc = 0 /\ parts = <<>>
    /\ result = NoResult /\ lastOp = None /\ spent = 0
    /\ chainOk = FALSE /\ chainPrefix = <<>> /\ entropySet = FALSE
    /\ nBuilds = 0 /\ nOther = 0 /\ pre = 0 /\ usedTime = 0
IdlePrefix ==
    /\ input = <<>>
    /\ prefixOut = [tag |-> "None", builder |-> NoBuilder]
    /\ puidOut = NoResult /\ libOut = NoResult
IdleBase36 == v = 0 /\ out = [done |-> FALSE, s |-> <<>>]
Statics == COUNTER = 0 /\ lib_COUNTER = 0

---------------------------------------------------------------------------
\* SpecBase36: to_base36 applied to one value.

Values == (0..MaxValue) \cup {46655, 46656, 1651312057, 2147483647}

InitBase36 ==
    /\ Statics /\ IdleCounter /\ IdleTest /\ IdleApi /\ IdlePrefix
    /\ pid = 1
    /\ v \in Values
    /\ out = [done |-> FALSE, s |-> <<>>]

Encode ==
    /\ ~out.done
    /\ out' = [done |-> TRUE, s |-> to_base36(v)]
    /\ UNCHANGED <<v, COUNTER, lib_COUNTER, counterVars, testVars, apiVars,
                   prefixVars>>

NextBase36 == Encode
SpecBase36 == InitBase36 /\ [][NextBase36]_vars

\* Reading a string as a base-36 numeral written with 0-9 then a-z.
Base36Digits == (48..57) \cup (97..122)
DigitValue(ch) == IF ch \in 48..57 THEN ch - 48 ELSE ch - 87
RECURSIVE Base36Value(_)
Base36Value(s) ==
    IF s = <<>> THEN 0
    ELSE 36 * Base36Value(SubSeq(s, 1, Len(s) - 1)) + DigitValue(s[Len(s)])
IsBase36Of(s, n) ==
    /\ \A i \in 1..Len(s) : s[i] \in Base36Digits
    /\ Base36Value(s) = n
    /\ (s = <<>>) <=> (n = 0)
    /\ s # <<>> => s[1] # 48

\* C8: to_base36(v) is the base-36 numeral of v over 0-9a-z, most significant
\* digit first, without a leading zero, empty for v = 0; reading it back gives
\* v; and to_base36(1651312057) = "rb5cjd".
C8_Base36 ==
    out.done =>
        /\ IsBase36Of(out.s, v)
        /\ v = 1651312057 => out.s = <<114, 98, 53, 99, 106, 100>>
C8_Witness == out.done /\ v = 1651312057 /\ out.s = <<114, 98, 53, 99, 106, 100>>

---------------------------------------------------------------------------
\* SpecPrefix: PuidBuilder::prefix and the two deprecated puid() functions,
\* each called once on one input string.

\* ASCII letters and digits of all three kinds.
BaseChars == <<97, 90, 48, 122, 57, 65>>
Base(n) == [i \in 1..n |-> BaseChars[((i - 1) % 6) + 1]]
\* The ASCII neighbours of the three alphanumeric ranges, the underscore, the
\* space, and characters of two, three and four bytes.
EdgeChars == {47, 58, 64, 91, 96, 123, 95, 32, 233, 8730, 128512}
Fixtures ==
    { <<102>>, <<102, 111>>, <<102, 111, 111>>, <<113, 117, 117, 120>>,
      <<98, 52, 114>>, <<98, 8730, 167, 122>>, <<116, 101, 115, 116>>,
      <<116, 111, 111, 108, 111, 110, 103, 112, 114, 101, 102, 105, 120>>,
      <<233, 233, 233, 233>>, <<233, 233, 233, 233, 233>> }
Inputs ==
    {Base(n) : n \in 0..MaxLen}
    \cup UNION {{[Base(n) EXCEPT ![i] = ch] : i \in 1..n, ch \in EdgeChars} :
                  n \in 1..MaxLen}
    \cup Fixtures
Elements == {0, 12}

InitPrefix ==
    /\ Statics /\ IdleCounter /\ IdleTest /\ IdleApi /\ IdleBase36
    /\ pid \in Pids
    /\ input \in Inputs
    /\ prefixOut = [tag |-> "None", builder |-> NoBuilder]
    /\ puidOut = NoResult /\ libOut = NoResult

\* Puid::builder().prefix(input)
CallPrefix ==
    /\ prefixOut.tag = "None"
    /\ prefixOut' = prefix(Puid_builder, input)
    /\ UNCHANGED <<input, puidOut, libOut, COUNTER, lib_COUNTER, counterVars,
                   testVars, apiVars, base36Vars>>

\* puid::puid(input, n) of puid.rs: assert!(validate(pref), ..), then the parts
CallPuid ==
    /\ puidOut.tag = "None"
    /\ IF validate(input)
       THEN \E n \in Elements, t \in Times, d \in Draws :
              /\ COUNTER' = counter_next(COUNTER)
              /\ puidOut' = Ok(puid(input, n, t,
                                   counter_result(COUNTER, counter_next(COUNTER)),
                                   pid, d))
       ELSE puidOut' = Panic /\ UNCHANGED COUNTER
    /\ UNCHANGED <<input, prefixOut, libOut, lib_COUNTER, counterVars, testVars,
                   apiVars, base36Vars>>

\* puid(input, n) of lib.rs: assert!(validate(pref), ..), then the parts
CallLibPuid ==
    /\ libOut.tag = "None"
    /\ IF lib_validate(input)
       THEN \E n \in Elements, t \in Times, d \in Draws :
              /\ lib_COUNTER' = counter_next(lib_COUNTER)
              /\ libOut' = Ok(lib_puid(input, n, t,
                                   counter_result(lib_COUNTER, counter_next(lib_COUNTER)),
                                   pid, d))
       ELSE libOut' = Panic /\ UNCHANGED lib_COUNTER
    /\ UNCHANGED <<input, prefixOut, puidOut, COUNTER, counterVars, testVars,
                   apiVars, base36Vars>>

NextPrefix == CallPrefix \/ CallPuid \/ CallLibPuid
SpecPrefix == InitPrefix /\ [][NextPrefix]_vars

\* The rule of the specification: 1 to 8 characters, each an ASCII letter or
\* digit.
AsciiLettersAndDigits == (48..57) \cup (65..90) \cup (97..122)
WellFormedPrefix(s) ==
    /\ Len(s) >= 1 /\ Len(s) <= 8
    /\ \A i \in 1..Len(s) : s[i] \in AsciiLettersAndDigits

\* C1: prefix(p) returns Ok(builder holding p) if and only if p has 1 to 8
\* characters, all ASCII letters or digits; for every other string it returns
\* Err(InvalidPrefix).
C1_PrefixIffWellFormed ==
    prefixOut.tag # "None" =>
        IF WellFormedPrefix(input)
        THEN /\ prefixOut.tag = "Ok"
             /\ prefixOut.builder.held
             /\ prefixOut.builder.prefix = input
        ELSE prefixOut.tag = "Err" /\ ~prefixOut.builder.held
C1_Witness == prefixOut.tag = "Ok" /\ Len(input) = 8

\* C7: the one-call puid(prefix, n) panics exactly when the prefix is invalid
\* under the rule of the builder, and returns an identifier for every prefix
\* the builder accepts, those of 5 to 8 characters included.  Stated of both
\* puid functions of the repository.
C7_PuidPanicsIffBuilderRejects ==
    /\ puidOut.tag # "None" =>
          /\ (puidOut.tag = "Panic") <=> ~WellFormedPrefix(input)
          /\ (puidOut.tag = "Ok") <=> WellFormedPrefix(input)
    /\ libOut.tag # "None" =>
          /\ (libOut.tag = "Panic") <=> ~WellFormedPrefix(input)
          /\ (libOut.tag = "Ok") <=> WellFormedPrefix(input)
\* The same statement of the puid of puid.rs alone.
C7_PuidRsOnly ==
    puidOut.tag # "None" =>
        /\ (puidOut.tag = "Panic") <=> ~WellFormedPrefix(input)
        /\ (puidOut.tag = "Ok") <=> WellFormedPrefix(input)

---------------------------------------------------------------------------
\* counter(): COUNTER.fetch_update(SeqCst, SeqCst, closure).unwrap().
\* fetch_update loads the value, applies the closure, and stores the result
\* with a compare-and-swap, retrying with the value found when it fails.
\* A spurious failure of compare_exchange_weak retries with the same value and
\* changes no state, so it is a stuttering step.

\* entry of counter() and the load of fetch_update, by thread t
FetchLoad(t) ==
    /\ pc[t] = "idle"
    /\ pc' = [pc EXCEPT ![t] = "cas"]
    /\ prev' = [prev EXCEPT ![t] = COUNTER]
    /\ nCalls' = nCalls + 1
    /\ soloist' = IF soloist \in {None, t} THEN t ELSE "several"
    /\ UNCHANGED <<COUNTER, nUpdates, lastRet, lastBy>>

\* the compare-and-swap succeeds: the closure's value is stored and counter()
\* returns
FetchCasOk(t) ==
    /\ pc[t] = "cas"
    /\ compare_exchange(COUNTER, prev[t])
    /\ COUNTER' = counter_next(prev[t])
    /\ lastRet' = counter_result(prev[t], counter_next(prev[t]))
    /\ lastBy' = t
    /\ nUpdates' = nUpdates + 1
    /\ pc' = [pc EXCEPT ![t] = "idle"]
    /\ UNCHANGED <<prev, nCalls, soloist>>

\* the compare-and-swap fails: retry with the value found
FetchCasRetry(t) ==
    /\ pc[t] = "cas"
    /\ ~compare_exchange(COUNTER, prev[t])
    /\ prev' = [prev EXCEPT ![t] = COUNTER]
    /\ UNCHANGED <<COUNTER, pc, nCalls, nUpdates, lastRet, lastBy, soloist>>

---------------------------------------------------------------------------
\* SpecCounter: two threads, each calling counter() again and again.

InitCounter ==
    /\ Statics /\ IdleCounter /\ IdleTest /\ IdleApi /\ IdlePrefix /\ IdleBase36
    /\ pid = 1

Load(t) ==
    /\ nCalls < MaxCalls
    /\ FetchLoad(t)
    /\ UNCHANGED <<lib_COUNTER, testVars, apiVars, prefixVars, base36Vars>>
CasOk(t) ==
    /\ FetchCasOk(t)
    /\ UNCHANGED <<lib_COUNTER, testVars, apiVars, prefixVars, base36Vars>>
CasRetry(t) ==
    /\ FetchCasRetry(t)
    /\ UNCHANGED <<lib_COUNTER, testVars, apiVars, prefixVars, base36Vars>>

NextCounter == \E t \in Threads : Load(t) \/ CasOk(t) \/ CasRetry(t)
SpecCounter == InitCounter /\ [][NextCounter]_vars

\* C2: in any interleaving, the k-th atomic update of COUNTER returns
\* (k-1) mod 256 to its caller, so between two wraps no value is returned
\* twice and none is skipped.
C2_KthUpdateReturns ==
    /\ nUpdates > 0 => lastRet = (nUpdates - 1) % 256
    /\ COUNTER = nUpdates % 256
\* the 257th update has happened with the other thread caught in a retry
C2_Witness ==
    /\ nUpdates >= 257 /\ lastRet = 0 /\ soloist = "several"
    /\ \E t \in Threads : pc[t] = "cas" /\ prev[t] # COUNTER /\ lastBy # t

\* C3: from 0, 256 consecutive calls by a single thread, with no other
\* caller, return 0, 1, ..., 255 in that order and the 257th returns 0; each
\* returns the value held before its transition
\* next = (current == 255) ? 0 : current + 1.
C3_SingleThreadSequence ==
    \A t \in Threads :
        (soloist = t /\ pc[t] = "idle" /\ nCalls > 0) =>
            /\ nUpdates = nCalls
            /\ nCalls <= 256 => lastRet = nCalls - 1 /\ COUNTER = (IF nCalls = 256 THEN 0 ELSE nCalls)
            /\ nCalls = 257 => lastRet = 0 /\ COUNTER = 1
            /\ COUNTER = (IF lastRet = 255 THEN 0 ELSE lastRet + 1)
C3_Witness == soloist = "t1" /\ pc["t1"] = "idle" /\ nCalls = 257 /\ lastRet = 0

---------------------------------------------------------------------------
\* SpecTest: tests::counter_test of puid.rs, alone in its process.  Thread t1
\* runs the test; t2 is the thread it spawns and does not join.

InitTest ==
    /\ Statics /\ IdleCounter /\ IdleApi /\ IdlePrefix /\ IdleBase36
    /\ pid = 1
    /\ tpc = "a" /\ a = 0 /\ b = 0 /\ c = 0
    /\ spawned = FALSE /\ childLeft = 0 /\ childAtC = 0

\* the number of iterations of `for _ in b + 1..=u8::MAX`
child_iterations_from_b(bv) == IF bv <= U8_MAX THEN U8_MAX - bv + 1 ELSE 0
child_iterations(bv) == IF bv + 1 <= U8_MAX THEN U8_MAX - (bv + 1) + 1 ELSE 0

\* the test's thread enters counter(): let a, let b, and the last assertion
TestLoad ==
    /\ tpc \in {"a", "b", "c"}
    /\ FetchLoad("t1")
    /\ UNCHANGED <<lib_COUNTER, testVars, apiVars, prefixVars, base36Vars>>

\* counter() returns to the test's thread
TestCasOk ==
    /\ tpc \in {"a", "b", "c"}
    /\ FetchCasOk("t1")
    /\ a' = IF tpc = "a" THEN lastRet' ELSE a
    /\ b' = IF tpc = "b" THEN lastRet' ELSE b
    /\ c' = IF tpc = "c" THEN lastRet' ELSE c
    /\ childAtC' = IF tpc = "c" THEN child_iterations(b) - childLeft ELSE childAtC
    /\ tpc' = CASE tpc = "a" -> "b" [] tpc = "b" -> "spawn" [] tpc = "c" -> "done"
    /\ UNCHANGED <<lib_COUNTER, spawned, childLeft, apiVars, prefixVars, base36Vars>>

TestCasRetry ==
    /\ FetchCasRetry("t1")
    /\ UNCHANGED <<lib_COUNTER, testVars, apiVars, prefixVars, base36Vars>>

\* thread::spawn(move || for _ in b + 1..=u8::MAX { counter(); })
TestSpawn ==
    /\ tpc = "spawn"
    /\ spawned' = TRUE
    /\ childLeft' = child_iterations(b)
    /\ tpc' = "assert"
    /\ UNCHANGED <<COUNTER, lib_COUNTER, counterVars, a, b, c, childAtC, apiVars,
                   prefixVars, base36Vars>>

\* assert!(a + 1 == b)
TestAssert ==
    /\ tpc = "assert"
    /\ tpc' = IF a + 1 = b THEN "c" ELSE "panic"
    /\ UNCHANGED <<COUNTER, lib_COUNTER, counterVars, a, b, c, spawned, childLeft,
                   childAtC, apiVars, prefixVars, base36Vars>>

ChildLoad ==
    /\ spawned /\ childLeft > 0
    /\ FetchLoad("t2")
    /\ UNCHANGED <<lib_COUNTER, testVars, apiVars, prefixVars, base36Vars>>

ChildCasOk ==
    /\ FetchCasOk("t2")
    /\ childLeft' = childLeft - 1
    /\ UNCHANGED <<lib_COUNTER, tpc, a, b, c, spawned, childAtC, apiVars,
                   prefixVars, base36Vars>>

ChildCasRetry ==
    /\ FetchCasRetry("t2")
    /\ UNCHANGED <<lib_COUNTER, testVars, apiVars, prefixVars, base36Vars>>

NextTest ==
    \/ TestLoad \/ TestCasOk \/ TestCasRetry \/ TestSpawn \/ TestAssert
    \/ ChildLoad \/ ChildCasOk \/ ChildCasRetry
SpecTest == InitTest /\ [][NextTest]_vars

---------------------------------------------------------------------------
\* Spec: one caller of the builder API, and other threads of the process
\* that use the counter.  A builder is moved into every method that takes
\* self: the caller holds what the method returns.

PrefixArgs ==
    { <<>>, <<102, 111, 111>>, <<97, 49, 66, 50, 99, 51, 100, 52>>,
      <<97, 95, 98>>, <<98, 8730, 122>>,
      <<116, 111, 111, 108, 111, 110, 103, 112, 114>> }
EntropyArgs == {0, 3}

Init ==
    /\ Statics /\ IdleCounter /\ IdleTest /\ IdleApi /\ IdlePrefix /\ IdleBase36
    /\ pid \in Pids

others == <<lib_COUNTER, counterVars, testVars, prefixVars, base36Vars, pid>>

\* Puid::builder(): a new chain of calls begins
NewBuilder ==
    /\ apc = 0
    /\ builder' = Puid_builder
    /\ result' = NoResult
    /\ lastOp' = "builder" /\ spent' = 0
    /\ chainOk' = FALSE /\ chainPrefix' = <<>> /\ entropySet' = FALSE
    /\ self' = NoBuilder /\ parts' = <<>> /\ pre' = 0 /\ usedTime' = 0
    /\ UNCHANGED <<COUNTER, apc, nBuilds, nOther, others>>

\* builder.prefix(p)
Prefix(p) ==
    /\ apc = 0 /\ builder.held
    /\ LET r == prefix(builder, p) IN
         /\ builder' = r.builder
         /\ result' = IF r.tag = "Ok" THEN NoResult ELSE Err
         /\ chainOk' = (chainOk \/ r.tag = "Ok")
         /\ chainPrefix' = IF r.tag = "Ok" THEN p ELSE chainPrefix
    /\ lastOp' = "prefix" /\ spent' = 0
    /\ UNCHANGED <<COUNTER, self, apc, parts, entropySet, nBuilds, nOther, pre,
                   usedTime, others>>

\* builder.entropy(e)
Entropy(e) ==
    /\ apc = 0 /\ builder.held
    /\ builder' = entropy(builder, e)
    /\ entropySet' = TRUE
    /\ lastOp' = "entropy" /\ spent' = 0
    /\ UNCHANGED <<COUNTER, self, apc, parts, result, chainOk, chainPrefix, nBuilds,
                   nOther, pre, usedTime, others>>

\* The statements of PuidBuilder::build in their order: the check of the
\* prefix; the prefix, the underscore and the time; the counter; the process
\* id, the random string and the return.
build_steps_check_late == <<"head", "counter", "check", "tail">>
build_steps == <<"check", "head", "counter", "tail">>

\* builder.build() is entered: self is moved into it
BuildEnter ==
    /\ apc = 0 /\ builder.held
    /\ self' = builder /\ builder' = NoBuilder
    /\ apc' = 1 /\ parts' = <<>> /\ result' = NoResult
    /\ lastOp' = "build" /\ spent' = 0
    /\ UNCHANGED <<COUNTER, chainOk, chainPrefix, entropySet, nBuilds, nOther, pre,
                   usedTime, others>>

\* if self.prefix.is_empty() { return Err(PuidError::InvalidPrefix); }
BuildCheck ==
    /\ apc > 0 /\ build_steps[apc] = "check"
    /\ IF is_empty(self.prefix)
       THEN apc' = 0 /\ result' = Err
       ELSE apc' = apc + 1 /\ UNCHANGED result
    /\ UNCHANGED <<COUNTER, builder, self, parts, lastOp, spent, chainOk, chainPrefix,
                   entropySet, nBuilds, nOther, pre, usedTime, others>>

\* push_str(self.prefix); push('_'); push_str(&to_base36(time()))
BuildHead ==
    /\ apc > 0 /\ build_steps[apc] = "head"
    /\ \E t \in Times :
         /\ parts' = parts \o self.prefix \o Underscore \o to_base36(t)
         /\ usedTime' = t
    /\ apc' = apc + 1
    /\ UNCHANGED <<COUNTER, builder, self, result, lastOp, spent, chainOk,
                   chainPrefix, entropySet, nBuilds, nOther, pre, others>>

\* push_str(&counter().to_string()): one atomic fetch_update
BuildCounter ==
    /\ apc > 0 /\ build_steps[apc] = "counter"
    /\ COUNTER' = counter_next(COUNTER)
    /\ parts' = parts \o u8_to_string(counter_result(COUNTER, counter_next(COUNTER)))
    /\ pre' = COUNTER
    /\ spent' = spent + 1
    /\ apc' = apc + 1
    /\ UNCHANGED <<builder, self, result, lastOp, chainOk, chainPrefix, entropySet,
                   nBuilds, nOther, usedTime, others>>

\* push_str(&to_base36(process::id())); push_str(&rnd_string(self.entropy)); Ok(result)
BuildTail ==
    /\ apc > 0 /\ build_steps[apc] = "tail"
    /\ \E d \in Draws :
         result' = Ok(parts \o to_base36(pid) \o rnd_string(self.entropy, d))
    /\ apc' = 0
    /\ nBuilds' = (nBuilds + 1) % 256
    /\ UNCHANGED <<COUNTER, builder, self, parts, lastOp, spent, chainOk, chainPrefix,
                   entropySet, nOther, pre, usedTime, others>>

\* counter() called by another thread of the process
OtherCounter ==
    /\ nOther < MaxOther
    /\ COUNTER' = counter_next(COUNTER)
    /\ nOther' = nOther + 1
    /\ UNCHANGED <<builder, self, apc, parts, result, lastOp, spent, chainOk,
                   chainPrefix, entropySet, nBuilds, pre, usedTime, others>>

Next ==
    \/ NewBuilder
    \/ \E p \in PrefixArgs : Prefix(p)
    \/ \E e \in EntropyArgs : Entropy(e)
    \/ BuildEnter \/ BuildCheck \/ BuildHead \/ BuildCounter \/ BuildTail
    \/ OtherCounter
Spec == Init /\ [][Next]_vars

---------------------------------------------------------------------------
\* Reading an identifier back.

StartsWith(s, p) == Len(s) >= Len(p) /\ SubSeq(s, 1, Len(p)) = p

RECURSIVE DecimalValue(_)
DecimalValue(s) ==
    IF s = <<>> THEN 0
    ELSE 10 * DecimalValue(SubSeq(s, 1, Len(s) - 1)) + (s[Len(s)] - 48)
\* s is the ordinary decimal numeral of n, of 1 to 3 digits
IsDecimalOf(s, n) ==
    /\ Len(s) \in 1..3
    /\ \A i \in 1..Len(s) : s[i] \in 48..57
    /\ Len(s) > 1 => s[1] # 48
    /\ DecimalValue(s) = n

RECURSIVE NumeralLength(_)
\* the number of base-36 digits of n, none for 0
NumeralLength(n) == IF n = 0 THEN 0 ELSE 1 + NumeralLength(n \div 36)

\* id is p, "_", the base-36 numeral of t, the decimal numeral of cnt, the
\* base-36 numeral of pd and n letters or digits, in this order
Decomposes(id, p, t, cnt, pd, n) ==
    \E lc \in 1..3 :
        LET lt == NumeralLength(t)
            lp == NumeralLength(pd)
            s1 == Len(p) + 1
            s2 == s1 + lt
            s3 == s2 + lc
            s4 == s3 + lp
        IN  /\ Len(id) = s4 + n
            /\ SubSeq(id, 1, Len(p)) = p
            /\ id[s1] = 95
            /\ IsBase36Of(SubSeq(id, s1 + 1, s2), t)
            /\ IsDecimalOf(SubSeq(id, s2 + 1, s3), cnt)
            /\ IsBase36Of(SubSeq(id, s3 + 1, s4), pd)
            /\ \A i \in (s4 + 1)..(s4 + n) : id[i] \in AsciiLettersAndDigits

\* the part of id where the counter stands, read as a decimal numeral of cnt
CounterPartIs(id, p, t, cnt) ==
    LET s2 == Len(p) + 1 + NumeralLength(t) IN
    \E lc \in 1..3 :
        /\ Len(id) >= s2 + lc
        /\ IsDecimalOf(SubSeq(id, s2 + 1, s2 + lc), cnt)
        /\ Len(id) = s2 + lc + NumeralLength(pid) + self.entropy

BuildReturned == apc = 0 /\ lastOp = "build"
BuildReturnedOk == BuildReturned /\ result.tag = "Ok"

\* C4: on every chain of builder calls begun by Puid::builder(), no builder
\* the caller holds carries an invalid non-empty prefix; build() returns
\* Err(InvalidPrefix) exactly when no prefix call of the chain succeeded, and
\* otherwise an identifier that starts with the last prefix set and "_".
C4_BuildErrIffNoPrefix ==
    /\ builder.held =>
          /\ builder.prefix = <<>> \/ WellFormedPrefix(builder.prefix)
          /\ builder.prefix = chainPrefix
    /\ BuildReturned =>
          /\ result.tag \in {"Ok", "Err"}
          /\ (result.tag = "Err") <=> ~chainOk
          /\ result.tag = "Ok" => StartsWith(result.value, chainPrefix \o Underscore)
C4_Witness ==
    /\ BuildReturnedOk /\ chainOk
    /\ chainPrefix = <<97, 49, 66, 50, 99, 51, 100, 52>>
    /\ StartsWith(result.value, <<97, 49, 66, 50, 99, 51, 100, 52, 95>>)

\* C5: every build() that returns an identifier advances the counter by
\* exactly one step of the wrap-around transition, and the decimal counter
\* part of the identifier is the value the counter held just before that
\* update; after k such builds from 0 and j uses by other threads the counter
\* is (k + j) mod 256, so k mod 256 when nothing else uses it.
C5_BuildAdvancesCounterOnce ==
    /\ COUNTER = (nBuilds + nOther + (IF apc # 0 THEN spent ELSE 0)) % 256
    /\ nOther = 0 /\ apc = 0 => COUNTER = nBuilds % 256
    /\ BuildReturnedOk =>
          /\ spent = 1
          /\ COUNTER = (IF pre = 255 THEN 0 ELSE pre + 1) \/ nOther > 0
          /\ CounterPartIs(result.value, self.prefix, usedTime, pre)
C5_Witness ==
    /\ BuildReturnedOk /\ nOther = 0 /\ pre = 255 /\ COUNTER = 0 /\ nBuilds = 0

C10_OnlyAssemblyMovesCounter ==
    /\ [](BuildReturned /\ result.tag = "Err" => spent = 0)
    /\ [][(nOther' = nOther /\ apc' = 0 /\ (apc = 0 \/ result'.tag = "Err"))
             => COUNTER' = COUNTER]_vars
C10_Witness == BuildReturned /\ result.tag = "Err" /\ COUNTER = 255 /\ nOther = 0

====
